---- MODULE Spec2Model ----
(***************************************************************************)
(* NSP session lifecycle (connect / disconnect / status / token renewal)   *)
(* and the intent-type catalog client of the yang-browser backend.         *)
(*                                                                         *)
(* Strings that are only compared are TLA+ strings; strings that are       *)
(* formatted or split (intent-type keys) are sequences of one-character    *)
(* strings.  An access token is a natural number, 0 standing for the empty *)
(* string "" (the zero value of Token.AccessToken).                        *)
(***************************************************************************)
EXTENDS Integers, Sequences, FiniteSets, TLC

\* ------------------------------------------------------------------ bounds
MaxTasks  == 2   \* goroutines spawned by "go s.tokenRefreshRoutine()"
MaxTokens == 2   \* tokens the authentication endpoint issues
MaxN      == 2   \* intent types in the server's dataset
MaxPages  == 3   \* depth to which the recursion of intentTypeSearch is followed
MaxData     == 4 \* intent types in the dataset of the catalog specification
MaxPageSize == 3 \* page sizes tried in the catalog specification
MaxKeyLen   == 5 \* length of the keys handed to intentTypeYangModules there

\* ------------------------------------------------------- program constants
ListPageSize  == 300   \* s.intentTypeSearch(0, 300)
RefreshMargin == 10    \* time.Sleep(... tokenExpiresIn-10)

\* -------------------------------------------------------------- environment
NoToken == 0
Absent  == "<absent>"          \* a JSON key that the request body omits
Hosts   == {"h1", "h2"}
Users   == {"u1"}
Passes  == {"p1"}
TTLs    == {0, 30}              \* expires_in values the endpoint may report
ClockTTLs == {0, 5, 12, 30}     \* the same, with one inside the refresh margin
TaskIds == 1..MaxTasks

\* Bodies of POST /nsp/connect: malformed JSON, or an object whose keys
\* "ip", "user", "pass" are each present (possibly "") or, for "ip", omitted.
Requests ==
  [bad : {FALSE}, ip : Hosts \cup {"", Absent}, user : Users \cup {""},
   pass : Passes \cup {""}]
  \cup {[bad |-> TRUE, ip |-> Absent, user |-> Absent, pass |-> Absent]}

NoReq == [bad |-> FALSE, ip |-> Absent, user |-> Absent, pass |-> Absent]

\* Credentials the authentication endpoint accepts.
ValidCreds == {<<"h1", "u1", "p1">>, <<"h2", "u1", "p1">>}

VARIABLES
  nsp,        \* s.nsp: Ip, User, Pass and the token {AccessToken, ExpiresIn}
  mu,         \* s.Mutex: 0 when free, else the goroutine holding it
  pc,         \* position of each tokenRefreshRoutine goroutine
  server,     \* NSP side: tokens issued and not revoked, next token to issue
  cancelled,  \* history: a successful disconnect returned after the goroutine started
  tokOwner,   \* history: the lineage (connect number) that stored the current token
  tl,         \* locals of each goroutine: tokenExpiresIn, what is left of its
              \* sleep, and (history) the time since the token it read was stored
  tokAge,     \* history: time since the current token was stored
  last        \* the response of the handler or goroutine step that ran last

vars == <<nsp, mu, pc, server, cancelled, tokOwner, tl, tokAge, last>>

\* -------------------------------------------------------------------- state
EmptyToken == [AccessToken |-> NoToken, ExpiresIn |-> 0]

NspAccess == [Ip |-> "", User |-> "", Pass |-> "", token |-> EmptyToken]

\* What the caller of a handler observes: the operation, its result, the
\* number of Transport calls it issued, the request body and the response body.
Event(op, res, calls, req, body) ==
  [op |-> op, res |-> res, calls |-> calls, req |-> req, body |-> body]

NoLocals == [ttl |-> 0, rem |-> 0, elapsed |-> 0]

Init ==
  /\ nsp = NspAccess
  /\ mu = 0
  /\ pc = [t \in TaskIds |-> "none"]
  /\ server = [valid |-> {}, next |-> 1]
  /\ cancelled = [t \in TaskIds |-> FALSE]
  /\ tokOwner = 0
  /\ tl = [t \in TaskIds |-> NoLocals]
  /\ tokAge = 0
  /\ last = Event("init", "ok", 0, NoReq, <<>>)

\* --------------------------------------------------------- session helpers
\* json.NewDecoder(r.Body).Decode(&s.nsp): the target is the long-lived
\* s.nsp, so a key the body omits keeps the stored value; the unexported
\* token field is never touched.
DecodeField(old, v) == IF v = Absent THEN old ELSE v

\* Decode as it would be if a host already stored were kept.
Decode_KeepHost(n, req) ==
  [n EXCEPT !.Ip   = IF n.Ip # "" THEN n.Ip ELSE DecodeField(n.Ip, req.ip),
            !.User = DecodeField(n.User, req.user),
            !.Pass = DecodeField(n.Pass, req.pass)]

Decode(n, req) ==
  [n EXCEPT !.Ip   = DecodeField(n.Ip, req.ip),
            !.User = DecodeField(n.User, req.user),
            !.Pass = DecodeField(n.Pass, req.pass)]

\* The credentials test as it would be without the password.
CredentialsMissing_NoPass(n) == n.Ip = "" \/ n.User = ""

\* s.nsp.Ip == "" || s.nsp.User == "" || s.nsp.Pass == ""
CredentialsMissing(n) == n.Ip = "" \/ n.User = "" \/ n.Pass = ""

\* Outcomes of one call to the authentication endpoint with the stored
\* credentials: a token, a transport error, a non-success status, or a body
\* that does not decode.
AuthOutcomes(n) ==
  IF <<n.Ip, n.User, n.Pass>> \in ValidCreds /\ server.next <= MaxTokens
  THEN {"ok", "error", "status", "decode"}
  ELSE {"error", "status"}

\* getToken: on success the token of the response is stored; on any failure
\* an error is returned and the stored token is left as it was.
getToken(n, out, tok, ttl) ==
  IF out = "ok"
  THEN [n EXCEPT !.token = [AccessToken |-> tok, ExpiresIn |-> ttl]]
  ELSE n

ServerIssue(sv, out) ==
  IF out = "ok"
  THEN [valid |-> sv.valid \cup {sv.next}, next |-> sv.next + 1]
  ELSE sv

RevokeOutcomes == {"ok", "fail"}

\* revokeToken: one call to the revoke endpoint for the stored token; on
\* success the stored token is erased, on failure an error is returned and
\* nothing is changed.
revokeToken(n, out) ==
  IF out = "ok" THEN [n EXCEPT !.token = EmptyToken] ELSE n

ServerRevoke(sv, n, out) ==
  IF out = "ok" THEN [sv EXCEPT !.valid = @ \ {n.token.AccessToken}] ELSE sv

\* The two tests of "connected" the handlers use.
StatusConnected(n)     == n.token.AccessToken # NoToken   \* nspIsConnected
DisconnectConnected(n) == n.Ip # ""                       \* nspDisconnect

Started == {t \in TaskIds : pc[t] # "none"}
Live(t) == pc[t] \in {"read", "sleep", "get"}
NextTask == IF Started = {} THEN 1 ELSE 1 + Cardinality(Started)


\* ------------------------------------------------------------ intent catalog
\* Outcomes of one s.makeHTTPRequest call followed by the status check and the
\* JSON decoding of the body: success, a transport error, a status other than
\* 200, or a body that does not decode.
HTTPOutcomes == {"ok", "error", "status", "decode"}

ErrorOf(out) ==
  CASE out = "ok"     -> "ok"
    [] out = "decode" -> "SchemaError"
    [] OTHER          -> "TransportError"

Digit == <<"0", "1", "2", "3", "4", "5", "6", "7", "8", "9">>

\* %d of a non-negative int
RECURSIVE Itoa(_)
Itoa(v) == IF v < 10 THEN <<Digit[v + 1]>> ELSE Itoa(v \div 10) \o <<Digit[(v % 10) + 1]>>

\* fmt.Sprintf("%s_%d", intentType.Name, intentType.Version)
FormatKey(it) == it.name \o <<"_">> \o Itoa(it.version)

\* The server's dataset of n intent types.
NameOf(i) == IF i % 2 = 1 THEN <<"a">> ELSE <<"b", "_", "c">>
Dataset(n) == [i \in 1..n |-> [name |-> NameOf(i), version |-> i]]

Min(a, b) == IF a < b THEN a ELSE b

\* The search endpoint: page pageNumber (from 0) of the dataset in pages of
\* pageSize.  An honest server reports as page-size the number of entries of
\* the page and as total-count the size of the dataset; a misreporting one
\* reports on every page the requested size and a larger total-count.  The
\* request numbered sv.failAt fails with sv.fail.
SearchPage(sv, pageNumber, pageSize) ==
  LET n     == Len(sv.data)
      first == Min(pageNumber * pageSize, n) + 1
      lastI == Min((pageNumber + 1) * pageSize, n)
      items == SubSeq(sv.data, first, lastI)
  IN  [out        |-> IF pageNumber = sv.failAt THEN sv.fail ELSE "ok",
       PageSize   |-> IF sv.mode = "honest" THEN Len(items) ELSE pageSize,
       TotalCount |-> IF sv.mode = "honest" THEN n ELSE pageSize + 1,
       IntentType |-> items]

\* intentTypeSearch as it would be if it never asked for a further page.
intentTypeSearch_FirstPage(pageNumber, pageSize, sv, fuel) ==
  LET r == SearchPage(sv, pageNumber, pageSize) IN
  IF r.out # "ok"
  THEN [err |-> ErrorOf(r.out), keys |-> <<>>, calls |-> 1]
  ELSE [err |-> "ok",
        keys |-> [i \in 1..Len(r.IntentType) |-> FormatKey(r.IntentType[i])],
        calls |-> 1]

\* intentTypeSearch(pageNumber, pageSize): the keys, the error and the number
\* of requests issued; fuel is the number of further pages the model follows.
RECURSIVE intentTypeSearch(_, _, _, _)
intentTypeSearch(pageNumber, pageSize, sv, fuel) ==
  LET r == SearchPage(sv, pageNumber, pageSize) IN
  IF r.out # "ok"
  THEN [err |-> ErrorOf(r.out), keys |-> <<>>, calls |-> 1]
  ELSE LET intentTypes == [i \in 1..Len(r.IntentType) |-> FormatKey(r.IntentType[i])] IN
       IF r.PageSize = pageSize /\ r.TotalCount > pageSize
       THEN IF fuel = 0
            THEN [err |-> "diverged", keys |-> intentTypes, calls |-> 1]
            ELSE LET nextPage == intentTypeSearch(pageNumber + 1, pageSize, sv, fuel - 1) IN
                 IF nextPage.err # "ok"
                 THEN [err |-> nextPage.err, keys |-> <<>>, calls |-> 1 + nextPage.calls]
                 ELSE [err |-> "ok", keys |-> intentTypes \o nextPage.keys,
                       calls |-> 1 + nextPage.calls]
       ELSE [err |-> "ok", keys |-> intentTypes, calls |-> 1]

\* LastIndex as it would be if it found the first occurrence.
LastIndex_First(s, c) ==
  LET hits == {i \in 1..Len(s) : s[i] = c} IN
  IF hits = {} THEN -1 ELSE (CHOOSE i \in hits : \A j \in hits : i <= j) - 1

\* strings.LastIndex(s, c): 0-based index of the last c in s, -1 when absent
LastIndex(s, c) ==
  LET hits == {i \in 1..Len(s) : s[i] = c} IN
  IF hits = {} THEN -1 ELSE (CHOOSE i \in hits : \A j \in hits : j <= i) - 1

\* Keys handed to intentTypeYangModules.
Keys == {<<"a">>, <<"a", "_", "1">>, <<"b", "_", "c", "_", "2">>, <<"_">>}

\* ----------------------------------------------------------------- handlers
\* POST connect
nspConnect(req, ttls) ==
  IF req.bad
  THEN /\ last' = Event("Connect", "DecodeError", 0, req, <<>>)
       /\ UNCHANGED <<nsp, mu, pc, server, cancelled, tokOwner, tl, tokAge>>
  ELSE LET n1 == Decode(nsp, req) IN
       IF CredentialsMissing(n1)
       THEN /\ nsp' = n1
            /\ last' = Event("Connect", "MissingCredentials", 0, req, <<>>)
            /\ UNCHANGED <<mu, pc, server, cancelled, tokOwner, tl, tokAge>>
       ELSE \E out \in AuthOutcomes(n1) :
              IF out # "ok"
              THEN /\ nsp' = getToken(n1, out, NoToken, 0)
                   /\ last' = Event("Connect", "AuthError", 1, req, <<>>)
                   /\ UNCHANGED <<mu, pc, server, cancelled, tokOwner, tl, tokAge>>
              ELSE \E ttl \in ttls :
                   /\ NextTask <= MaxTasks
                   /\ nsp' = getToken(n1, out, server.next, ttl)
                   /\ server' = ServerIssue(server, out)
                   /\ pc' = [pc EXCEPT ![NextTask] = "read"]
                   /\ tokOwner' = NextTask
                   /\ tokAge' = 0
                   /\ last' = Event("Connect", "ok", 1, req, <<>>)
                   /\ UNCHANGED <<mu, cancelled, tl>>

\* POST disconnect
nspDisconnect ==
  IF ~DisconnectConnected(nsp)
  THEN /\ last' = Event("Disconnect", "NotConnected", 0, NoReq, <<>>)
       /\ UNCHANGED <<nsp, mu, pc, server, cancelled, tokOwner, tl, tokAge>>
  ELSE \E out \in RevokeOutcomes :
         /\ nsp' = revokeToken(nsp, out)
         /\ server' = ServerRevoke(server, nsp, out)
         /\ cancelled' = IF out = "ok"
                         THEN [t \in TaskIds |-> cancelled[t] \/ Live(t)]
                         ELSE cancelled
         /\ tokOwner' = IF out = "ok" THEN 0 ELSE tokOwner
         /\ last' = Event("Disconnect", IF out = "ok" THEN "ok" ELSE "RevokeError",
                          1, NoReq, <<>>)
         /\ UNCHANGED <<mu, pc, tl, tokAge>>

\* GET status: "NSP is not connected" when the access token is empty, else
\* the export {Ip, User}
StatusResponse(n) ==
  IF ~StatusConnected(n)
  THEN Event("Status", "NotConnected", 0, NoReq, <<>>)
  ELSE Event("Status", "ok", 0, NoReq, <<n.Ip, n.User>>)

nspIsConnected ==
  /\ last' = StatusResponse(nsp)
  /\ UNCHANGED <<nsp, mu, pc, server, cancelled, tokOwner, tl, tokAge>>

\* GET list, kind "nsp": s.intentTypeSearch(0, 300)
list ==
  \E n \in 0..MaxN, out \in HTTPOutcomes :
    LET sv == [data |-> Dataset(n), failAt |-> IF out = "ok" THEN -1 ELSE 0,
               fail |-> out, mode |-> "honest"]
        r  == intentTypeSearch(0, ListPageSize, sv, MaxPages)
    IN  /\ last' = Event("List", r.err, r.calls, NoReq, r.keys)
        /\ UNCHANGED <<nsp, mu, pc, server, cancelled, tokOwner, tl, tokAge>>

\* YANG modules of one intent type: the key is split at its last "_"; without
\* one the call fails before any request, else one GET is issued.
ModulesResponse(intentType, out) ==
  LET lastInd == LastIndex(intentType, "_") IN
  IF lastInd = -1
  THEN Event("Modules", "MalformedKey", 0, NoReq,
             [key |-> intentType, name |-> <<>>, version |-> <<>>])
  ELSE LET name    == SubSeq(intentType, 1, lastInd)
           version == SubSeq(intentType, lastInd + 2, Len(intentType))
       IN  Event("Modules", ErrorOf(out), 1, NoReq,
                 [key |-> intentType, name |-> name, version |-> version])

intentTypeYangModules(intentType) ==
  \E out \in HTTPOutcomes :
    /\ last' = ModulesResponse(intentType, out)
    /\ UNCHANGED <<nsp, mu, pc, server, cancelled, tokOwner, tl, tokAge>>

\* ------------------------------------------------------- renewal goroutine
\* The sleep as it would be without the safety margin.
SleepDuration_NoMargin(ttl) == ttl

\* time.Second * time.Duration(tokenExpiresIn-10)
SleepDuration(ttl) == ttl - RefreshMargin

\* time.Sleep(d): a duration that is zero or negative returns at once
SleepTicks(ttl) == IF SleepDuration(ttl) <= 0 THEN 0 ELSE SleepDuration(ttl)

\* s.Lock(); tokenExpiresIn := s.nsp.token.ExpiresIn; s.Unlock();
\* return when it is 0, else sleep.
tokenRefreshRead(t) ==
  /\ pc[t] = "read"
  /\ mu = 0
  /\ pc' = [pc EXCEPT ![t] = IF nsp.token.ExpiresIn = 0 THEN "done" ELSE "sleep"]
  /\ tl' = [tl EXCEPT ![t] = [ttl     |-> nsp.token.ExpiresIn,
                              rem     |-> SleepTicks(nsp.token.ExpiresIn),
                              elapsed |-> tokAge]]
  /\ last' = Event("RenewRead", "ok", 0, NoReq, <<>>)
  /\ UNCHANGED <<nsp, mu, server, cancelled, tokOwner, tokAge>>

\* The sleep returns; s.Lock(); s.revokeToken(), on error s.Unlock(); return.
\* tokenExpiresIn is not read again before line 331 assigns it anew, so the
\* locals are forgotten here.
tokenRefreshRevoke(t) ==
  /\ pc[t] = "sleep"
  /\ mu = 0
  /\ \E out \in RevokeOutcomes :
       /\ nsp' = revokeToken(nsp, out)
       /\ server' = ServerRevoke(server, nsp, out)
       /\ mu' = IF out = "ok" THEN t ELSE 0
       /\ pc' = [pc EXCEPT ![t] = IF out = "ok" THEN "get" ELSE "done"]
       /\ last' = Event("RenewRevoke", IF out = "ok" THEN "ok" ELSE "RevokeError",
                        1, NoReq, <<>>)
       /\ tokOwner' = IF out = "ok" THEN 0 ELSE tokOwner
       /\ tl' = [tl EXCEPT ![t] = NoLocals]
       /\ UNCHANGED <<cancelled, tokAge>>

\* The lock after getToken as it would be if the error path returned without
\* s.Unlock().
LockAfterGet_HeldOnError(t, out) == IF out = "ok" THEN 0 ELSE t

\* The lock after getToken: s.Unlock() before the return of the error path and
\* at the end of the loop body alike.
LockAfterGet(t, out) == 0

\* s.getToken(), on error s.Unlock(); return; else s.Unlock() and loop.
tokenRefreshGet(t, ttls) ==
  /\ pc[t] = "get"
  /\ mu = t
  /\ \E out \in AuthOutcomes(nsp), ttl \in ttls \cup {0} :
       /\ (out # "ok") => (ttl = 0)
       /\ nsp' = getToken(nsp, out, server.next, ttl)
       /\ server' = ServerIssue(server, out)
       /\ mu' = LockAfterGet(t, out)
       /\ pc' = [pc EXCEPT ![t] = IF out = "ok" THEN "read" ELSE "done"]
       /\ tokOwner' = IF out = "ok" THEN t ELSE tokOwner
       /\ last' = Event("RenewGet", IF out = "ok" THEN "ok" ELSE "AuthError",
                        1, NoReq, <<>>)
       /\ tokAge' = IF out = "ok" THEN 0 ELSE tokAge
       /\ UNCHANGED <<cancelled, tl>>

Next ==
  \/ \E req \in Requests : nspConnect(req, TTLs)
  \/ nspDisconnect
  \/ nspIsConnected
  \/ list
  \/ \E k \in Keys : intentTypeYangModules(k)
  \/ \E t \in TaskIds : tokenRefreshRead(t)
  \/ \E t \in TaskIds : tokenRefreshRevoke(t)
  \/ \E t \in TaskIds : tokenRefreshGet(t, TTLs)

Spec == Init /\ [][Next]_vars

\* ------------------------------------------------------------------ catalog
\* The two catalog functions on their own: the initial state draws the input
\* (a server dataset, its behaviour and a page size, or a key), the actions
\* apply intentTypeSearch and intentTypeYangModules to it.
SearchInputs ==
  {i \in [n : 0..MaxData, p : 1..MaxPageSize, mode : {"honest", "misreport"},
          failAt : -1..1, fail : HTTPOutcomes \ {"ok"}] :
     i.failAt = -1 => i.fail = "error"}

KeyChars  == {"a", "_", "2"}
KeyInputs == UNION {[1..k -> KeyChars] : k \in 0..MaxKeyLen}

\* Pages an honest server needs at most are MaxData + 1.
SearchFuel == MaxData + 1

ServerOf(i) ==
  [data |-> Dataset(i.n), failAt |-> i.failAt, fail |-> i.fail, mode |-> i.mode]

InitCatalog ==
  /\ nsp = NspAccess
  /\ mu = 0
  /\ pc = [t \in TaskIds |-> "none"]
  /\ server = [valid |-> {}, next |-> 1]
  /\ cancelled = [t \in TaskIds |-> FALSE]
  /\ tokOwner = 0
  /\ tl = [t \in TaskIds |-> NoLocals]
  /\ tokAge = 0
  /\ \/ \E i \in SearchInputs : last = Event("SearchInput", "ok", 0, NoReq, i)
     \/ \E k \in KeyInputs : last = Event("KeyInput", "ok", 0, NoReq, k)

searchCall ==
  /\ last.op = "SearchInput"
  /\ LET r == intentTypeSearch(0, last.body.p, ServerOf(last.body), SearchFuel)
     IN  last' = Event("Search", r.err, r.calls, NoReq,
                       [in |-> last.body, keys |-> r.keys])
  /\ UNCHANGED <<nsp, mu, pc, server, cancelled, tokOwner, tl, tokAge>>

modulesCall ==
  /\ last.op = "KeyInput"
  /\ intentTypeYangModules(last.body)

NextCatalog == searchCall \/ modulesCall

SpecCatalog == InitCatalog /\ [][NextCatalog]_vars

\* ------------------------------------------------------------ discrete clock
\* The session with time: a sleep of d seconds ends after d ticks; everything
\* else (goroutine start, lock, Transport calls) takes no time, so the clock
\* advances only when no goroutine has a step to take.
ClockRequests == {[bad |-> FALSE, ip |-> "h1", user |-> "u1", pass |-> "p1"]}

Urgent(t) == pc[t] \in {"read", "get"} \/ (pc[t] = "sleep" /\ tl[t].rem = 0)

Tick ==
  /\ \A t \in TaskIds : ~Urgent(t)
  /\ \E t \in TaskIds : pc[t] = "sleep"
  /\ tl' = [t \in TaskIds |->
             IF pc[t] = "sleep"
             THEN [tl[t] EXCEPT !.rem = @ - 1, !.elapsed = @ + 1]
             ELSE tl[t]]
  /\ tokAge' = tokAge + 1
  /\ last' = Event("Tick", "ok", 0, NoReq, <<>>)
  /\ UNCHANGED <<nsp, mu, pc, server, cancelled, tokOwner>>

\* time.Sleep returns when the duration has passed
tokenRefreshWake(t) == tl[t].rem = 0 /\ tokenRefreshRevoke(t)

NextClock ==
  \/ \E req \in ClockRequests : nspConnect(req, ClockTTLs)
  \/ nspDisconnect
  \/ \E t \in TaskIds : tokenRefreshRead(t)
  \/ \E t \in TaskIds : tokenRefreshWake(t)
  \/ \E t \in TaskIds : tokenRefreshGet(t, ClockTTLs)
  \/ Tick

SpecClock == Init /\ [][NextClock]_vars

\* =================================================================== claims
Renewing(t) == pc[t] \in {"sleep", "get"}

HasEmptyField(req) == ~req.bad /\ (req.ip = "" \/ req.user = "" \/ req.pass = "")
AllPresent(req) ==
  ~req.bad /\ req.ip \in Hosts /\ req.user \in Users /\ req.pass \in Passes

\* C1: among the renewal tasks that no disconnect has cancelled, at most one
\* is able to revoke and re-acquire the token, whatever connects were issued.
C1_AtMostOneRenewalTask ==
  Cardinality({t \in TaskIds : Renewing(t) /\ ~cancelled[t]}) <= 1

\* C2: a renewal task that was running when a successful disconnect returned
\* never leaves its sleep by issuing a revoke call: it begins no new cycle.
C2_NoCycleAfterDisconnect ==
  [][\A t \in TaskIds :
       (cancelled[t] /\ pc[t] = "sleep" /\ pc'[t] # "sleep") => last'.calls = 0]_vars

\* C3: after connect, disconnect, connect, the task of the first connect
\* neither revokes nor replaces a token stored by the lineage of the second.
C3_OldTaskLeavesNewSession ==
  [][\A t \in TaskIds :
       (cancelled[t] /\ tokOwner > t /\ pc[t] # pc'[t])
         => (nsp'.token = nsp.token /\ server'.valid = server.valid)]_vars

\* C4: a disconnect of a connected session ends with the token erased, the
\* status not connected and no task renewing, also when the revoke call fails.
C4_DisconnectClears ==
  [][(StatusConnected(nsp) /\ last'.op = "Disconnect")
       => (nsp'.token = EmptyToken /\ ~StatusConnected(nsp')
           /\ \A t \in TaskIds : ~Renewing(t)')]_vars

\* C5: when a renewal task ends because its revoke or its re-acquire failed,
\* the session is not connected any more.
C5_RenewalFailureDisconnects ==
  [][\A t \in TaskIds :
       (Renewing(t) /\ pc'[t] = "done") => ~StatusConnected(nsp')]_vars

\* C6: a disconnect of a session that holds no token answers NotConnected and
\* issues no Transport call.
C6_DisconnectWhenDisconnected ==
  [][(~StatusConnected(nsp) /\ last'.op = "Disconnect")
       => (last'.res = "NotConnected" /\ last'.calls = 0)]_vars

C8_AuthErrorLeavesDisconnected ==
  (last.op = "Connect" /\ last.res = "AuthError")
    => (~StatusConnected(nsp) /\ ~DisconnectConnected(nsp))

\* C9: right after a successful connect with three non-empty credentials the
\* status answers exactly the host and the user supplied, and the token is
\* not empty.
C9_ConnectThenStatus ==
  (last.op = "Connect" /\ last.res = "ok" /\ AllPresent(last.req))
    => /\ nsp.token.AccessToken # NoToken
       /\ StatusResponse(nsp) =
            Event("Status", "ok", 0, NoReq, <<last.req.ip, last.req.user>>)

C9_Witness ==
  /\ last.op = "Connect" /\ last.res = "ok" /\ AllPresent(last.req)
  /\ last.req.ip = "h2" /\ server.next > 2

\* C10: a search or a module fetch on a session that holds no token answers
\* SessionError and issues no Transport request.
C10_CatalogNeedsSession ==
  [][(~StatusConnected(nsp) /\ last'.op \in {"List", "Modules"}
        /\ last'.res # "MalformedKey")
       => (last'.res = "SessionError" /\ last'.calls = 0)]_vars

\* C16: a renewal task whose token has a ttl of at most the safety margin
\* (0..10) ends without issuing a revoke or re-acquire call.
C16_ShortTtlEndsTask ==
  [][\A t \in TaskIds :
       (pc[t] = "sleep" /\ tl[t].ttl <= RefreshMargin /\ pc'[t] # "sleep")
         => last'.calls = 0]_vars

\* C18: a renewal task that read a ttl T > 10 issues its revoke exactly
\* T - 10 ticks after the token it read was stored, in its first cycle and,
\* with the ttl of the token it acquired, in every following one.
C18_RenewalTiming ==
  [][\A t \in TaskIds :
       (pc[t] = "sleep" /\ pc'[t] # "sleep" /\ tl[t].ttl > RefreshMargin)
         => tl[t].elapsed = tl[t].ttl - RefreshMargin]_vars

C18_Witness ==
  /\ last.op = "RenewRevoke" /\ pc[2] = "none"
  /\ server.next >= 3 /\ tokAge >= 20

\* Keys of the first n entries of the dataset, written out.
ExpectedKeys(n) == [i \in 1..n |-> NameOf(i) \o <<"_", Digit[i + 1]>>]

\* Entries returned by pages 0..k, and what page k reports.
RECURSIVE Accumulated(_, _)
Accumulated(i, k) ==
  IF k < 0 THEN 0
  ELSE Len(SearchPage(ServerOf(i), k, i.p).IntentType) + Accumulated(i, k - 1)

\* C11: for every server behaviour the search ends within the page requests
\* the model follows; it never runs past them.
C11_SearchTerminates ==
  last.op = "Search" => last.res # "diverged"

\* C12: against an honest server holding n intent types, a search with page
\* size p returns exactly the n keys name_version, once each, in page order.
C12_SearchReturnsAllKeys ==
  (last.op = "Search" /\ last.body.in.mode = "honest" /\ last.body.in.failAt = -1)
    => (last.res = "ok" /\ last.body.keys = ExpectedKeys(last.body.in.n))

C12_Witness ==
  /\ last.op = "Search" /\ last.body.in.mode = "honest" /\ last.body.in.failAt = -1
  /\ last.body.in.n = 4 /\ last.body.in.p = 2
  /\ last.calls = 3 /\ Len(last.body.keys) = 4

\* C13: a key with a "_" is split at the last one into the name before it and
\* the version after it and one request is issued; a key without "_" fails
\* with MalformedKey and no request.
C13_KeySplitAtLastUnderscore ==
  last.op = "Modules" =>
    LET b == last.body IN
    IF \E i \in 1..Len(b.key) : b.key[i] = "_"
    THEN /\ last.res # "MalformedKey" /\ last.calls = 1
         /\ b.name \o <<"_">> \o b.version = b.key
         /\ \A i \in 1..Len(b.version) : b.version[i] # "_"
    ELSE last.res = "MalformedKey" /\ last.calls = 0

C13_Witness ==
  /\ last.op = "Modules" /\ last.body.key = <<"a", "_", "a", "_", "2">>
  /\ last.body.name = <<"a", "_", "a">> /\ last.body.version = <<"2">>

\* C17: against an honest server page k+1 is requested only if page k
\* reported the requested page size and the entries of pages 0..k are still
\* fewer than the total-count it reported.
C17_NextPageOnlyBelowTotal ==
  (last.op = "Search" /\ last.body.in.mode = "honest")
    => \A k \in 0..(last.calls - 2) :
         LET i == last.body.in
             r == SearchPage(ServerOf(i), k, i.p)
         IN  r.PageSize = i.p /\ Accumulated(i, k) < r.TotalCount

\* C14: whenever a new token is stored for the session, the token held before
\* it is no longer valid at the server.
C14_NewTokenRevokesPrevious ==
  [][(nsp'.token.AccessToken # NoToken
        /\ nsp'.token.AccessToken # nsp.token.AccessToken)
       => nsp.token.AccessToken \notin server'.valid]_vars

\* C15: while a renewal task holds the lock between its revoke and its
\* re-acquire, no status request reads the token and no connect or disconnect
\* revokes or acquires one.
C15_HandlersWaitForRenewal ==
  [][(mu # 0) =>
       /\ last'.op # "Status"
       /\ ~(last'.op \in {"Connect", "Disconnect"} /\ last'.calls > 0)]_vars

\* C19: a connect that is rejected while the session is connected leaves the
\* stored host, user, password and token as they were.
C19_RejectedConnectKeepsSession ==
  [][(StatusConnected(nsp) /\ last'.op = "Connect" /\ last'.res # "ok")
       => nsp' = nsp]_vars

\* C20: the status test (token not empty) and the disconnect test (host not
\* empty) agree in every reachable state.
C20_ConnectedTestsAgree ==
  StatusConnected(nsp) <=> DisconnectConnected(nsp)

\* C21: a renewal task that has ended (ttl 0, revoke failure, re-acquire
\* failure) or that sleeps does not hold the session lock; the lock is held
\* only by a task between its revoke and its re-acquire.
C21_NoLockHeldAtExitOrSleep ==
  /\ \A t \in TaskIds : pc[t] \in {"none", "read", "sleep", "done"} => mu # t
  /\ mu # 0 => (mu \in TaskIds /\ pc[mu] = "get")

C21_Witness ==
  /\ last.op = "RenewGet" /\ last.res = "AuthError"
  /\ \E t \in TaskIds : pc[t] = "done"
  /\ mu = 0

====
